---- MODULE Spec2Model ----
(***************************************************************************)
(* A model of the two React components of src/pages/LogBook/LogBook.tsx:   *)
(*   LogBook  - client-side filtering and pagination of visitor logs       *)
(*   Stations - station list, selection, guard assignment, activation,     *)
(*              creation                                                   *)
(* Strings are sequences of one-character strings, so that trim,           *)
(* toLowerCase and includes are computed as JavaScript computes them.      *)
(* Names that both components use (stations, loading, error) carry the     *)
(* prefix "log" for the LogBook component.                                 *)
(***************************************************************************)
EXTENDS Integers, Sequences, FiniteSets, TLC

VARIABLES
    \* ---- LogBook component state (lines 30-42)
    data,            \* VisitorLogDTO[]
    activeLogIds,    \* ids of the active logs
    logStations,     \* Station[] as fetched (not normalised)
    search,
    statusFilter,
    locationFilter,
    page,
    pageSize,
    logLoading,
    logError,
    fetchState,      \* the promises given to Promise.all (line 49)
    \* ---- Stations component state (lines 371-397)
    currentType,
    stations,
    selectedStationId,
    loading,
    error,
    assignedUsers,       \* guard ids shown as assigned
    assignedUsersOf,     \* history: the station whose response wrote assignedUsers
    guardsLoading,
    assignModalOpen,
    allGuards,
    selectedGuardIds,
    showInactive,
    createModalOpen,
    createName,
    createType,
    createSubmitting,
    createError,
    renameModalOpen,
    renameName,
    renameType,
    renameError,
    renameSubmitting,
    lastConfirm,         \* history: the last answer to window.confirm (line 517)
    lastSubmit,          \* history: the form whose Create / Save was clicked last
    \* ---- the world outside the component
    requests,            \* calls in flight, each with the values its closure captured
    serverGuards,        \* backend: station id -> set of guard ids
    nextId               \* backend: id given to the next created station

logVars == <<data, activeLogIds, logStations, search, statusFilter,
             locationFilter, page, pageSize, logLoading, logError, fetchState>>

stVars == <<currentType, stations, selectedStationId, loading, error,
            assignedUsers, assignedUsersOf, allGuards, guardsLoading,
            assignModalOpen, selectedGuardIds, showInactive, createModalOpen, createName,
            createType, createSubmitting, createError, renameModalOpen,
            renameName, renameType, renameError, renameSubmitting, lastConfirm,
            lastSubmit, requests, serverGuards, nextId>>

vars == <<logVars, stVars>>

\* the create form (lines 385-389), the edit form (lines 393-397) and the
\* guards-related state (lines 378-382)
formVars  == <<createModalOpen, createName, createType, createSubmitting,
               createError>>
renameVars == <<renameModalOpen, renameName, renameType, renameError,
                renameSubmitting>>
guardVars == <<assignedUsers, assignedUsersOf, selectedGuardIds, guardsLoading>>

----------------------------------------------------------------------------
(* Bounds of the model *)

\* longest log list the backend returns
MaxLogs == 2
\* largest page index a page-change event may request
MaxPage == 2
\* most calls of the Stations component in flight at once
MaxInFlight == 2
\* most stations created in one session
MaxCreated == 2

(* Program constants *)

\* useState(25)
DefaultPageSize == 25

----------------------------------------------------------------------------
(* Strings *)

\* null / undefined in a string-valued field
NULL == <<"<null>">>

UpperLetters == <<"A","B","C","D","E","F","G","H","I","J","K","L","M",
                  "N","O","P","Q","R","S","T","U","V","W","X","Y","Z">>
LowerLetters == <<"a","b","c","d","e","f","g","h","i","j","k","l","m",
                  "n","o","p","q","r","s","t","u","v","w","x","y","z">>

LowerOf ==
    [c \in { UpperLetters[i] : i \in 1..26 } |->
        LowerLetters[CHOOSE i \in 1..26 : UpperLetters[i] = c]]

LowerChar(c) == IF c \in DOMAIN LowerOf THEN LowerOf[c] ELSE c

\* String.prototype.toLowerCase
toLowerCase(s) == [i \in 1..Len(s) |-> LowerChar(s[i])]

IsSpace(c) == c \in {" ", "\t", "\n"}

\* String.prototype.trim
trim(s) ==
    LET keep == {i \in 1..Len(s) : ~IsSpace(s[i])}
    IN  IF keep = {} THEN <<>>
        ELSE SubSeq(s, CHOOSE i \in keep : \A j \in keep : i <= j,
                       CHOOSE i \in keep : \A j \in keep : i >= j)

\* String.prototype.includes
includes(s, t) ==
    \E i \in 0..(Len(s) - Len(t)) : SubSeq(s, i + 1, i + Len(t)) = t

\* x || ''  and  x ?? ''  on a string-valued field
OrEmpty(x) == IF x = NULL THEN <<>> ELSE x

\* the literals of the source
sAll      == <<"a","l","l">>
sGate     == <<"g","a","t","e">>
sBuilding == <<"b","u","i","l","d","i","n","g">>
sNA       == <<"N","/","A">>
sGatePfx  == <<"G","a","t","e"," ">>

----------------------------------------------------------------------------
(* What the backend may return to LogBook *)

sAnn      == <<"A","n","n">>
sBo       == <<"B","o">>
sID       == <<"I","D">>
s7        == <<"7">>
sGate1    == <<"G","a","t","e"," ","1">>
sGate1Pad == <<" ","G","a","t","e"," ","1"," ">>
sGATE1    == <<"G","A","T","E"," ","1">>
sLobby    == <<"L","o","b","b","y">>
sLobbyPad == <<"L","o","b","b","y"," ">>
sKiosk    == <<"k","i","o","s","k">>
sGateUp   == <<"G","a","t","e">>

Log(id, name, idType, passNo, loc, by) ==
    [visitorLogID |-> id, fullName |-> name, idType |-> idType,
     passNo |-> passNo, location |-> loc, purposeOfVisit |-> NULL,
     loggedBy |-> by, date |-> NULL, time |-> NULL]

LogPool ==
    { Log(1, sAnn, sID,  s7,   sGate1Pad, NULL),
      Log(2, sBo,  NULL, NULL, sLobby,    sAnn),
      Log(3, NULL, NULL, NULL, NULL,      sBo),
      Log(4, sBo,  sID,  NULL, sGATE1,    NULL) }

\* the lists getAllLogs may return: no log twice, at most MaxLogs logs
RECURSIVE ListsOver(_, _)
ListsOver(S, n) ==
    IF n = 0 \/ S = {} THEN {<<>>}
    ELSE {<<>>} \cup
         UNION { { <<x>> \o rest : rest \in ListsOver(S \ {x}, n - 1) } : x \in S }

LogLists == ListsOver(LogPool, MaxLogs)

\* a station as the backend sends it; active is {} when the field is absent,
\* {TRUE} or {FALSE} otherwise
Station(id, name, type, active) ==
    [id |-> id, name |-> name, stationType |-> type, active |-> active]

\* the lists getAllStations may return to LogBook
LogStationLists ==
    { << Station(1, sGate1, NULL, {}), Station(2, sLobbyPad, sBuilding, {TRUE}) >>,
      << Station(1, sGATE1, sGateUp, {TRUE}), Station(2, sNA, NULL, {}),
         Station(3, NULL, sKiosk, {TRUE}) >> }

SearchTerms == { <<>>, <<"G","A","T","E">>, <<"n","I">> }

PageSizes == {1, 2}

NoError == "null"

\* the three calls of line 49
Fetches == {"getAllLogs", "getActiveLogs", "getAllStations"}

----------------------------------------------------------------------------
(* LogBook: derived values *)

Min(a, b) == IF a <= b THEN a ELSE b

\* Math.ceil(a / b) for a >= 0, b > 0
Ceil(a, b) == (a + b - 1) \div b

\* Array.prototype.slice(from, to) for 0 <= from <= to
slice(s, from, to) == SubSeq(s, from + 1, Min(to, Len(s)))

\* line 66
isActive(logId) == logId \in activeLogIds

\* lines 69-77; the order given by sortGateAware is not part of this model
locationOptions ==
    { n \in { trim(OrEmpty(logStations[i].name)) : i \in 1..Len(logStations) } :
        n # <<>> /\ n # sNA }

\* line 99
LogFields(e) ==
    << OrEmpty(e.fullName), OrEmpty(e.idType), OrEmpty(e.passNo),
       OrEmpty(e.location), OrEmpty(e.purposeOfVisit), OrEmpty(e.loggedBy),
       OrEmpty(e.date), OrEmpty(e.time) >>

RECURSIVE Concat(_)
Concat(ss) == IF ss = <<>> THEN <<>> ELSE Head(ss) \o Concat(Tail(ss))

\* a filter that matches the search term against the joined fields
LogPasses_Joined(e) ==
    LET term        == toLowerCase(search)
        logIsActive == isActive(e.visitorLogID)
        location    == toLowerCase(trim(OrEmpty(e.location)))
    IN  IF statusFilter = "active" /\ ~logIsActive THEN FALSE
        ELSE IF statusFilter = "inactive" /\ logIsActive THEN FALSE
        ELSE IF locationFilter # sAll
                /\ (location = <<>> \/ location # toLowerCase(trim(locationFilter)))
             THEN FALSE
        ELSE IF term = <<>> THEN TRUE
        ELSE includes(toLowerCase(Concat(LogFields(e))), term)

\* lines 83-102: the predicate of data.filter
LogPasses(e) ==
    LET term        == toLowerCase(search)
        logIsActive == isActive(e.visitorLogID)
        location    == toLowerCase(trim(OrEmpty(e.location)))
        fields      == LogFields(e)
    IN  IF statusFilter = "active" /\ ~logIsActive THEN FALSE
        ELSE IF statusFilter = "inactive" /\ logIsActive THEN FALSE
        ELSE IF locationFilter # sAll
                /\ (location = <<>> \/ location # toLowerCase(trim(locationFilter)))
             THEN FALSE
        ELSE IF term = <<>> THEN TRUE
        ELSE \E i \in 1..Len(fields) : includes(toLowerCase(fields[i]), term)

\* a filter that also drops the first entry it keeps
filterLogs_DropFirst(list) ==
    LET kept == SelectSeq(list, LogPasses)
    IN  IF kept = <<>> THEN <<>> ELSE Tail(kept)

\* lines 83-102: Array.prototype.filter with the predicate above
filterLogs(list) == SelectSeq(list, LogPasses)

\* lines 80-103
filteredLogs == filterLogs(data)

\* line 106
totalElements == Len(filteredLogs)
\* a page count that rounds down
totalPages_Floor == IF totalElements = 0 THEN 0 ELSE totalElements \div pageSize
\* line 107
totalPages    == IF totalElements = 0 THEN 0 ELSE Ceil(totalElements, pageSize)
currentPage   == IF totalPages = 0 THEN 0 ELSE Min(page, totalPages - 1)
\* a slice taken at the stored page instead of the clamped one
pagedLogs_RawPage == slice(filteredLogs, page * pageSize, page * pageSize + pageSize)

\* line 111
pagedLogs     == slice(filteredLogs, currentPage * pageSize,
                                     currentPage * pageSize + pageSize)

----------------------------------------------------------------------------
(* LogBook: the state after construction, and the handlers *)

\* lines 30-42
LogBookInit ==
    /\ data = <<>>
    /\ activeLogIds = {}
    /\ logStations = <<>>
    /\ search = <<>>
    /\ statusFilter = "all"
    /\ locationFilter = sAll
    /\ page = 0
    /\ pageSize = DefaultPageSize
    /\ logLoading = TRUE
    /\ logError = NoError
    /\ fetchState = [f \in Fetches |-> "pending"]

\* the page is rendered with its controls (lines 157-171)
LogBookShown == ~logLoading /\ logError = NoError

\* line 49: one of the three calls is answered
fetchFulfilled ==
    /\ \E f \in Fetches :
          /\ fetchState[f] = "pending"
          /\ fetchState' = [fetchState EXCEPT ![f] = "fulfilled"]
    /\ UNCHANGED stVars
    /\ UNCHANGED <<data, activeLogIds, logStations, search, statusFilter,
                   locationFilter, page, pageSize, logLoading, logError>>

\* line 49: one of the three calls fails
fetchRejected ==
    /\ \E f \in Fetches :
          /\ fetchState[f] = "pending"
          /\ fetchState' = [fetchState EXCEPT ![f] = "rejected"]
    /\ UNCHANGED stVars
    /\ UNCHANGED <<data, activeLogIds, logStations, search, statusFilter,
                   locationFilter, page, pageSize, logLoading, logError>>

\* a continuation that runs as soon as getAllLogs is answered
fetchLogsOk_FirstAnswer(logLists) ==
    /\ logLoading
    /\ fetchState["getAllLogs"] = "fulfilled"
    /\ \E allLogs \in logLists, stationsData \in LogStationLists :
       \E activeLogs \in SUBSET { allLogs[i].visitorLogID : i \in 1..Len(allLogs) } :
          /\ data' = allLogs
          /\ activeLogIds' = activeLogs
          /\ logStations' = stationsData
    /\ logError' = NoError
    /\ logLoading' = FALSE
    /\ UNCHANGED stVars
    /\ UNCHANGED <<search, statusFilter, locationFilter, page, pageSize, fetchState>>

\* lines 46-60, Promise.all resolved: every call was answered; logLists are
\* the lists getAllLogs may return
fetchLogsOk(logLists) ==
    /\ logLoading
    /\ \A f \in Fetches : fetchState[f] = "fulfilled"
    /\ \E allLogs \in logLists, stationsData \in LogStationLists :
       \E activeLogs \in SUBSET { allLogs[i].visitorLogID : i \in 1..Len(allLogs) } :
          /\ data' = allLogs
          /\ activeLogIds' = activeLogs
          /\ logStations' = stationsData
    /\ logError' = NoError
    /\ logLoading' = FALSE
    /\ UNCHANGED stVars
    /\ UNCHANGED <<search, statusFilter, locationFilter, page, pageSize, fetchState>>

\* lines 46-60, Promise.all rejected: it rejects with the first call that fails
fetchLogsFail ==
    /\ logLoading
    /\ \E f \in Fetches : fetchState[f] = "rejected"
    /\ logError' = "Failed to load visitor logs."
    /\ logLoading' = FALSE
    /\ UNCHANGED stVars
    /\ UNCHANGED <<data, activeLogIds, logStations, search, statusFilter,
                   locationFilter, page, pageSize, fetchState>>

\* a page-size handler that keeps the page
onPageSizeChange_KeepPage ==
    /\ LogBookShown
    /\ \E newSize \in PageSizes : pageSize' = newSize
    /\ UNCHANGED stVars
    /\ UNCHANGED <<data, activeLogIds, logStations, search, statusFilter,
                   locationFilter, page, logLoading, logError, fetchState>>

\* a status handler that keeps the page
onStatusChange_KeepPage ==
    /\ LogBookShown
    /\ \E v \in {"all", "active", "inactive"} : statusFilter' = v
    /\ UNCHANGED stVars
    /\ UNCHANGED <<data, activeLogIds, logStations, search, locationFilter,
                   page, pageSize, logLoading, logError, fetchState>>

\* lines 187-190
onStatusChange ==
    /\ LogBookShown
    /\ \E v \in {"all", "active", "inactive"} : statusFilter' = v
    /\ page' = 0
    /\ UNCHANGED stVars
    /\ UNCHANGED <<data, activeLogIds, logStations, search, locationFilter,
                   pageSize, logLoading, logError, fetchState>>

\* lines 204-207; the options are "all" and locationOptions (lines 209-214)
onLocationChange ==
    /\ LogBookShown
    /\ \E v \in {sAll} \cup locationOptions : locationFilter' = v
    /\ page' = 0
    /\ UNCHANGED stVars
    /\ UNCHANGED <<data, activeLogIds, logStations, search, statusFilter,
                   pageSize, logLoading, logError, fetchState>>

\* lines 224-227
onSearchChange ==
    /\ LogBookShown
    /\ \E v \in SearchTerms : search' = v
    /\ page' = 0
    /\ UNCHANGED stVars
    /\ UNCHANGED <<data, activeLogIds, logStations, statusFilter, locationFilter,
                   pageSize, logLoading, logError, fetchState>>

\* line 303: onPageChange={setPage}, whatever index is requested
onPageChange ==
    /\ LogBookShown
    /\ \E p \in 0..MaxPage : page' = p
    /\ UNCHANGED stVars
    /\ UNCHANGED <<data, activeLogIds, logStations, search, statusFilter,
                   locationFilter, pageSize, logLoading, logError, fetchState>>

\* line 303, when PaginationControls requests only pages of the view it shows
onPageChangeInRange ==
    /\ LogBookShown
    /\ \E p \in 0..(totalPages - 1) : page' = p
    /\ UNCHANGED stVars
    /\ UNCHANGED <<data, activeLogIds, logStations, search, statusFilter,
                   locationFilter, pageSize, logLoading, logError, fetchState>>

\* lines 304-307
onPageSizeChange ==
    /\ LogBookShown
    /\ \E newSize \in PageSizes : pageSize' = newSize
    /\ page' = 0
    /\ UNCHANGED stVars
    /\ UNCHANGED <<data, activeLogIds, logStations, search, statusFilter,
                   locationFilter, logLoading, logError, fetchState>>

----------------------------------------------------------------------------
(* LogBook: the icon of a log row *)

\* Array.prototype.find: the index of the first match, 0 when there is none
FindMatched(locationName) ==
    LET hits == { i \in 1..Len(logStations) :
                    toLowerCase(trim(OrEmpty(logStations[i].name)))
                        = toLowerCase(locationName) }
    IN  IF hits = {} THEN 0 ELSE CHOOSE i \in hits : \A j \in hits : i <= j

\* lines 254-272: "gate" is faDungeon, "building" is farBuilding, "none" is null
locationIcon(row) ==
    LET locationName == trim(OrEmpty(row.location))
        m            == FindMatched(locationName)
        matched      == m # 0
        stationType  == IF matched
                        THEN toLowerCase(OrEmpty(logStations[m].stationType))
                        ELSE <<>>
        looksLikeGate == includes(toLowerCase(locationName), sGate)
    IN  IF locationName = <<>> THEN "none"
        ELSE IF stationType = sGate \/ (~matched /\ looksLikeGate) THEN "gate"
        ELSE "building"

----------------------------------------------------------------------------
(* LogBook: the statistics of the day, lines 113-154 *)

sUnknown     == <<"U","n","k","n","o","w","n">>
sUnknownGate == sUnknown \o <<" ","g","a","t","e">>
s12          == <<"1","2">>

\* line 117: new Date().toISOString().slice(0, 10), the day of the render;
\* the two dates stand for that day and for an earlier one
today     == <<"d","1">>
yesterday == <<"d","0">>
\* a date field that starts with the day of the render and goes on
todayNoon == today \o <<"T","1","2">>

\* a log as getAllLogs returns it, with its date
DatedLog(id, name, loc, date) ==
    [Log(id, name, NULL, NULL, loc, NULL) EXCEPT !.date = date]

StatsPool ==
    { DatedLog(1, sAnn, sLobby, today),
      DatedLog(2, sBo,  s7,     today),
      DatedLog(3, sAnn, s12,    today),
      DatedLog(4, sBo,  sGate1, today),
      DatedLog(5, NULL, sGATE1, today),
      DatedLog(6, sAnn, NULL,   today),
      DatedLog(7, sBo,  sLobby, yesterday),
      DatedLog(8, sAnn, sLobby, todayNoon) }

\* the lists getAllLogs may return on the statistics page
StatsLogLists == ListsOver(StatsPool, MaxLogs)

Digits == <<"0","1","2","3","4","5","6","7","8","9">>

IsDigit(c) == \E k \in 1..Len(Digits) : Digits[k] = c

DigitValue(c) == (CHOOSE k \in 1..Len(Digits) : Digits[k] = c) - 1

\* the number a string of digits writes
RECURSIVE NumValue(_)
NumValue(s) ==
    IF s = <<>> THEN 0
    ELSE NumValue(SubSeq(s, 1, Len(s) - 1)) * Len(Digits) + DigitValue(s[Len(s)])

\* an integer-like property key of a JavaScript object: the canonical decimal
\* form of an array index, which OrdinaryOwnPropertyKeys lists before the
\* string keys (the keys of the model stay far below the limit 2^32 - 2)
IsArrayIndex(s) ==
    /\ s # <<>>
    /\ \A k \in 1..Len(s) : IsDigit(s[k])
    /\ (Len(s) > 1 => s[1] # "0")

\* the elements of a set of positions, ascending
RECURSIVE Ascending(_)
Ascending(S) ==
    IF S = {} THEN <<>>
    ELSE LET lo == CHOOSE x \in S : \A y \in S : x <= y
         IN  <<lo>> \o Ascending(S \ {lo})

\* lines 125-129 and 132-139: the object a forEach builds from the keys it
\* meets, as the sequence of [key, count] in order of first insertion
Tally(keys) ==
    LET first == { i \in 1..Len(keys) : \A j \in 1..(i - 1) : keys[j] # keys[i] }
        order == Ascending(first)
    IN  [n \in 1..Len(order) |->
            [key   |-> keys[order[n]],
             count |-> Cardinality({ j \in 1..Len(keys) : keys[j] = keys[order[n]] })]]

\* the integer-like entries of a tally, by ascending number
RECURSIVE ByNumber(_)
ByNumber(es) ==
    IF es = {} THEN <<>>
    ELSE LET lo == CHOOSE e \in es :
                       \A f \in es : NumValue(e.key) <= NumValue(f.key)
         IN  <<lo>> \o ByNumber(es \ {lo})

IsIndexEntry(e) == IsArrayIndex(e.key)

IsNameEntry(e) == ~IsArrayIndex(e.key)

\* lines 130 and 140, Object.entries: integer-like keys first, by ascending
\* number, then the other keys in order of insertion
ObjectEntries(tally) ==
    ByNumber({ tally[n] : n \in { m \in 1..Len(tally) : IsIndexEntry(tally[m]) } })
       \o SelectSeq(tally, IsNameEntry)

\* lines 130 and 140, sort((a, b) => b[1] - a[1]): by count, largest first;
\* Array.prototype.sort is stable, entries of equal count keep their order
RECURSIVE SortByCount(_)
SortByCount(es) ==
    IF es = <<>> THEN <<>>
    ELSE LET top == CHOOSE n \in 1..Len(es) :
                       /\ \A m \in 1..Len(es) : es[m].count <= es[n].count
                       /\ \A m \in 1..(n - 1) : es[m].count < es[n].count
         IN  <<es[top]>> \o SortByCount(SubSeq(es, 1, top - 1)
                                         \o SubSeq(es, top + 1, Len(es)))

\* lines 130 and 140: [0]?.[0], then `|| 'N/A'` of lines 148-149
TopKey(tally) ==
    LET sorted == SortByCount(ObjectEntries(tally))
    IN  IF sorted = <<>> \/ sorted[1].key = <<>> THEN sNA ELSE sorted[1].key

IsToday(d) == d.date = today

\* line 119
todayLogs == SelectSeq(data, IsToday)

IsTodayActive(d) == d.visitorLogID \in activeLogIds

\* line 120
todayActiveLogs == SelectSeq(todayLogs, IsTodayActive)

\* line 127: d.location || 'Unknown'
LocationKey(d) == IF OrEmpty(d.location) = <<>> THEN sUnknown ELSE d.location

IsGateLog(d) == includes(toLowerCase(OrEmpty(d.location)), sGate)

\* line 136: d.location || 'Unknown gate'
GateKey(d) == IF OrEmpty(d.location) = <<>> THEN sUnknownGate ELSE d.location

\* lines 125-129
locationCount == Tally([n \in 1..Len(todayLogs) |-> LocationKey(todayLogs[n])])

\* lines 132-139
gateCount ==
    LET gateLogs == SelectSeq(todayLogs, IsGateLog)
    IN  Tally([n \in 1..Len(gateLogs) |-> GateKey(gateLogs[n])])

\* a count of the logs in place of a count of their names
UniqueNames_CountLogs(list) == Len(list)

\* lines 122 and 143-144: new Set(list.map((d) => d.fullName)).size
UniqueNames(list) == Cardinality({ list[n].fullName : n \in 1..Len(list) })

\* lines 113-154; hasStats is false where the source returns null (line 115)
stats ==
    IF data = <<>> THEN [hasStats |-> FALSE]
    ELSE [hasStats         |-> TRUE,
          active           |-> Len(todayActiveLogs),
          uniqueToday      |-> UniqueNames(todayLogs),
          frequentBuilding |-> TopKey(locationCount),
          highestGate      |-> TopKey(gateCount),
          uniqueWeek       |-> UniqueNames(data),
          uniqueMonth      |-> UniqueNames(data)]

----------------------------------------------------------------------------
(* Stations: what the backend holds *)

\* selectedStationId = null
NoId == -1

sGate9 == <<"G","a","t","e"," ","9">>
sGate5 == <<"G","a","t","e"," ","5">>
sGate3 == <<"G","a","t","e"," ","3">>
s3     == <<"3">>
sBlank == <<" ">>
sLOBBY == <<" ","L","O","B","B","Y"," ">>
sBuildingUp == <<"B","u","i","l","d","i","n","g">>

\* the station list behind the selection and guard-assignment handlers
GuardedStations ==
    << Station(1, sGate1, sGate, {TRUE}), Station(2, sGate5, NULL, {}) >>

\* the station lists behind the list and create handlers
ListedStations ==
    { << Station(0, sGate1, NULL, {}),
         Station(1, sLobbyPad, sBuildingUp, {TRUE}),
         Station(2, sGate9, sKiosk, {FALSE}) >>,
      << Station(0, <<>>, sKiosk, {TRUE}),
         Station(1, sGate5, sBuilding, {}),
         Station(2, sBlank, NULL, {TRUE}),
         Station(3, NULL, NULL, {FALSE}) >> }

\* the backend numbers a created station after the stations it holds
FirstNewId ==
    LET ids == UNION { { l[i].id : i \in 1..Len(l) } :
                        l \in ListedStations \cup {GuardedStations} }
    IN  1 + CHOOSE m \in ids : \A k \in ids : k <= m

\* the guard accounts among getAllUsers
GuardAccounts == {1, 2}

\* the guards of each station before any update; a created station has none
InitialGuards ==
    [s \in 0..(FirstNewId + MaxCreated) |-> IF s \in GuardAccounts THEN {s} ELSE {}]

\* the names typed into the Add Station form
CreateNames == { <<>>, sBlank, s3, sGate3, sLOBBY }

----------------------------------------------------------------------------
(* Stations: derived values *)

\* a non-null id that JavaScript treats as true
Truthy(id) == id # NoId /\ id # 0

StationIds(list) == { list[i].id : i \in 1..Len(list) }

\* line 399: true when selectedStation is not null
HasSelectedStation ==
    Truthy(selectedStationId) /\ selectedStationId \in StationIds(stations)

\* lines 716-721: the icon of a station in the list
StationIcon(station) ==
    LET t == toLowerCase(OrEmpty(station.stationType))
        looksLikeGate == includes(toLowerCase(OrEmpty(station.name)), sGate)
    IN  IF t = sGate \/ (t = <<>> /\ looksLikeGate) THEN "gate" ELSE "building"

\* lines 745-750: the icon in the detail header
HeaderIcon(station) ==
    LET t == toLowerCase(OrEmpty(station.stationType))
        looksLikeGate == includes(toLowerCase(OrEmpty(station.name)), sGate)
    IN  IF t = sGate \/ (t = <<>> /\ looksLikeGate) THEN "gate" ELSE "building"

\* the string of a 'gate' | 'building' value
TypeName(type) == IF type = "gate" THEN sGate ELSE sBuilding

\* a list filter that lets the name decide before the type
StationListed_NameFirst(s, type, inactive) ==
    LET name == toLowerCase(OrEmpty(s.name))
        matchesType ==
            IF name = <<>> THEN TRUE
            ELSE IF type = "gate" THEN includes(name, sGate)
            ELSE ~includes(name, sGate)
    IN  IF ~matchesType THEN FALSE
        ELSE IF ~inactive THEN s.active # FALSE
        ELSE TRUE

\* lines 485-511: the predicate of stations.filter, for a tab and a
\* show-inactive setting
StationListed(s, type, inactive) ==
    LET rawType == toLowerCase(OrEmpty(s.stationType))
        name    == toLowerCase(OrEmpty(s.name))
        matchesType ==
            IF rawType = sGate \/ rawType = sBuilding
            THEN rawType = TypeName(type)
            ELSE IF name = <<>> THEN TRUE
            ELSE IF type = "gate" THEN includes(name, sGate)
            ELSE ~includes(name, sGate)
    IN  IF ~matchesType THEN FALSE
        ELSE IF ~inactive THEN s.active # FALSE
        ELSE TRUE

InCurrentList(s) == StationListed(s, currentType, showInactive)

\* lines 485-511
filteredStations == SelectSeq(stations, InCurrentList)

\* lines 696-702: the station list is rendered
ListShown == ~loading /\ error = NoError

\* an open Modal covers the page (lines 788, 808, 841)
PageClickable == ~assignModalOpen /\ ~createModalOpen /\ ~renameModalOpen

----------------------------------------------------------------------------
(* Stations: calls in flight, each with what its closure captured *)

LoadReq == [kind |-> "load"]

\* getStationGuards of the selection effect; cancelled is the effect's flag
GuardsReq(s, c) == [kind |-> "guards", station |-> s, cancelled |-> c]

\* setStationActive; showInactive and selectedStationId are the values the
\* handler's closure holds
ToggleReq(s, newActive, shown, selected) ==
    [kind |-> "toggle", station |-> s, newActive |-> newActive,
     showInactive |-> shown, selectedStationId |-> selected]

\* updateStationGuards of Save, then its getStationGuards
SaveUpdateReq(s, ids) == [kind |-> "saveUpdate", station |-> s, ids |-> ids]
SaveFetchReq(s)       == [kind |-> "saveFetch", station |-> s]

\* createStation; rawName is the trimmed input the handler validated
CreateReq(finalName, type, rawName) ==
    [kind |-> "create", name |-> finalName, stationType |-> type,
     rawName |-> rawName]

\* updateStation; active is the flag of the station the handler's closure
\* holds, rawName the trimmed input the handler validated
RenameReq(s, finalName, type, active, rawName) ==
    [kind |-> "rename", station |-> s, name |-> finalName, stationType |-> type,
     active |-> active, rawName |-> rawName]

CanIssue == Cardinality(requests) < MaxInFlight

----------------------------------------------------------------------------
(* Stations: the state after construction *)

\* lines 371-397; the mount effects have run: the load is in flight (line 442)
\* and the guard effect found no selection (lines 453-457)
StationsInit ==
    /\ currentType = "gate"
    /\ stations = <<>>
    /\ selectedStationId = NoId
    /\ loading = TRUE
    /\ error = NoError
    /\ assignedUsers = {}
    /\ assignedUsersOf = NoId
    /\ allGuards = {}
    /\ guardsLoading = FALSE
    /\ assignModalOpen = FALSE
    /\ selectedGuardIds = {}
    /\ showInactive = FALSE
    /\ createModalOpen = FALSE
    /\ createName = <<>>
    /\ createType = "gate"
    /\ createSubmitting = FALSE
    /\ createError = NoError
    /\ renameModalOpen = FALSE
    /\ renameName = <<>>
    /\ renameType = "gate"
    /\ renameError = NoError
    /\ renameSubmitting = FALSE
    /\ lastConfirm = "none"
    /\ lastSubmit = "none"
    /\ requests = {LoadReq}
    /\ serverGuards = InitialGuards
    /\ nextId = FirstNewId

----------------------------------------------------------------------------
(* Stations: the selection effect, lines 449-482 *)

\* the cleanup of the previous run sets its cancelled flag (lines 479-481)
CancelGuards(reqs) ==
    { IF r.kind = "guards" THEN GuardsReq(r.station, TRUE) ELSE r : r \in reqs }

\* what follows setSelectedStationId(newId), reqs being the calls in flight:
\* the effect runs again only when the id changed (line 482)
SelectionEffect(newId, reqs) ==
    /\ selectedStationId' = newId
    /\ IF newId = selectedStationId
       THEN /\ requests' = reqs
            /\ UNCHANGED <<assignedUsers, assignedUsersOf, selectedGuardIds,
                           guardsLoading>>
       ELSE IF newId = NoId
       THEN /\ assignedUsers' = {}
            /\ assignedUsersOf' = NoId
            /\ selectedGuardIds' = {}
            /\ requests' = CancelGuards(reqs)
            /\ UNCHANGED guardsLoading
       ELSE /\ guardsLoading' = TRUE
            /\ requests' = CancelGuards(reqs) \cup {GuardsReq(newId, FALSE)}
            /\ UNCHANGED <<assignedUsers, assignedUsersOf, selectedGuardIds>>

\* a guard response that is applied whether or not the effect was cancelled
getStationGuardsOk_NoCancelCheck ==
    \E r \in requests :
       /\ r.kind = "guards"
       /\ requests' = requests \ {r}
       /\ assignedUsers' = serverGuards[r.station]
       /\ assignedUsersOf' = r.station
       /\ selectedGuardIds' = serverGuards[r.station]
       /\ guardsLoading' = FALSE
       /\ UNCHANGED <<logVars, renameVars, lastConfirm, lastSubmit, currentType, stations, selectedStationId, loading, error,
                      allGuards, assignModalOpen, showInactive, createModalOpen,
                      createName, createType, createSubmitting, createError,
                      serverGuards, nextId>>

\* lines 461-465 and 471-475: getStationGuards resolved
getStationGuardsOk ==
    \E r \in requests :
       /\ r.kind = "guards"
       /\ requests' = requests \ {r}
       /\ IF ~r.cancelled
          THEN /\ assignedUsers' = serverGuards[r.station]
               /\ assignedUsersOf' = r.station
               /\ selectedGuardIds' = serverGuards[r.station]
               /\ guardsLoading' = FALSE
          ELSE UNCHANGED <<assignedUsers, assignedUsersOf, selectedGuardIds,
                           guardsLoading>>
       /\ UNCHANGED <<logVars, renameVars, lastConfirm, lastSubmit, currentType, stations, selectedStationId, loading, error,
                      allGuards, assignModalOpen, showInactive, createModalOpen,
                      createName, createType, createSubmitting, createError,
                      serverGuards, nextId>>

\* lines 466-475: getStationGuards rejected
getStationGuardsFail ==
    \E r \in requests :
       /\ r.kind = "guards"
       /\ requests' = requests \ {r}
       /\ IF ~r.cancelled
          THEN /\ error' = "Failed to load guards for station"
               /\ guardsLoading' = FALSE
          ELSE UNCHANGED <<error, guardsLoading>>
       /\ UNCHANGED <<logVars, renameVars, lastConfirm, lastSubmit, currentType, stations, selectedStationId, loading,
                      assignedUsers, assignedUsersOf, allGuards, assignModalOpen,
                      selectedGuardIds, showInactive, createModalOpen,
                      createName, createType, createSubmitting, createError,
                      serverGuards, nextId>>

----------------------------------------------------------------------------
(* Stations: loading, the tab and the list *)


\* lines 411-415
Normalized(list) ==
    [i \in 1..Len(list) |->
        [list[i] EXCEPT !.active = IF list[i].active = {} THEN TRUE
                                   ELSE CHOOSE b \in list[i].active : TRUE]]

\* lines 405-439, Promise.all resolved with one of the lists
fetchStationsAndGuardsOk(lists) ==
    /\ LoadReq \in requests
    /\ \E stationsData \in lists : stations' = Normalized(stationsData)
    /\ allGuards' = GuardAccounts
    /\ error' = NoError
    /\ loading' = FALSE
    /\ requests' = requests \ {LoadReq}
    /\ UNCHANGED <<logVars, renameVars, lastConfirm, lastSubmit, currentType, selectedStationId, guardVars, assignModalOpen,
                   showInactive, formVars, serverGuards, nextId>>

\* lines 430-439, Promise.all rejected
fetchStationsAndGuardsFail ==
    /\ LoadReq \in requests
    /\ error' = "Failed to load stations or guards"
    /\ loading' = FALSE
    /\ requests' = requests \ {LoadReq}
    /\ UNCHANGED <<logVars, renameVars, lastConfirm, lastSubmit, currentType, stations, selectedStationId, guardVars, allGuards,
                   assignModalOpen, showInactive, formVars, serverGuards, nextId>>

\* lines 679-684
setCurrentType ==
    /\ PageClickable
    /\ \E t \in {"gate", "building"} : currentType' = t
    /\ UNCHANGED <<logVars, renameVars, lastConfirm, lastSubmit, stations, selectedStationId, loading, error, guardVars,
                   allGuards, assignModalOpen, showInactive, formVars, requests,
                   serverGuards, nextId>>

\* line 686
setShowInactive ==
    /\ PageClickable
    /\ showInactive' = ~showInactive
    /\ UNCHANGED <<logVars, renameVars, lastConfirm, lastSubmit, currentType, stations, selectedStationId, loading, error,
                   guardVars, allGuards, assignModalOpen, formVars, requests,
                   serverGuards, nextId>>

\* line 714: a click on a station of the list
selectStation ==
    /\ ListShown /\ PageClickable
    /\ \E i \in 1..Len(filteredStations) :
          LET id == filteredStations[i].id
          IN  /\ id # selectedStationId => CanIssue
              /\ SelectionEffect(id, requests)
    /\ UNCHANGED <<logVars, renameVars, lastConfirm, lastSubmit, currentType, stations, loading, error, allGuards,
                   assignModalOpen, showInactive, formVars, serverGuards, nextId>>

\* line 761: Close in the detail pane
closeDetails ==
    /\ HasSelectedStation /\ PageClickable
    /\ SelectionEffect(NoId, requests)
    /\ UNCHANGED <<logVars, renameVars, lastConfirm, lastSubmit, currentType, stations, loading, error, allGuards,
                   assignModalOpen, showInactive, formVars, serverGuards, nextId>>

----------------------------------------------------------------------------
(* Stations: activation, lines 513-532 *)

\* a toggle that always requests deactivation
handleToggleStationActive_AlwaysDeactivate ==
    /\ ListShown /\ PageClickable
    /\ \E i \in 1..Len(filteredStations), ok \in BOOLEAN :
          LET station   == filteredStations[i]
              newActive == FALSE
              call      == ToggleReq(station.id, newActive, showInactive,
                                     selectedStationId)
          IN  IF ~ok
              THEN /\ lastConfirm' = "cancel"
                   /\ UNCHANGED requests
              ELSE /\ CanIssue
                   /\ call \notin requests
                   /\ lastConfirm' = "ok"
                   /\ requests' = requests \cup {call}
    /\ UNCHANGED <<logVars, lastSubmit, renameVars, currentType, stations, selectedStationId,
                   loading, error, guardVars, allGuards, assignModalOpen,
                   showInactive, formVars, serverGuards, nextId>>

\* lines 513-521: Deactivate / Reactivate clicked; ok is the answer to
\* window.confirm (lines 517-518)
handleToggleStationActive ==
    /\ ListShown /\ PageClickable
    /\ \E i \in 1..Len(filteredStations), ok \in BOOLEAN :
          LET station   == filteredStations[i]
              newActive == IF station.active = FALSE THEN TRUE ELSE FALSE
              call      == ToggleReq(station.id, newActive, showInactive,
                                     selectedStationId)
          IN  IF ~ok
              THEN /\ lastConfirm' = "cancel"
                   /\ UNCHANGED requests
              ELSE /\ CanIssue
                   /\ call \notin requests
                   /\ lastConfirm' = "ok"
                   /\ requests' = requests \cup {call}
    /\ UNCHANGED <<logVars, lastSubmit, renameVars, currentType, stations, selectedStationId, loading, error,
                   guardVars, allGuards, assignModalOpen, showInactive, formVars,
                   serverGuards, nextId>>

\* line 523
WithActive(list, id, active) ==
    [i \in 1..Len(list) |->
        IF list[i].id = id THEN [list[i] EXCEPT !.active = active] ELSE list[i]]

\* lines 521-527: setStationActive resolved with the requested flag
setStationActiveOk ==
    \E r \in requests :
       /\ r.kind = "toggle"
       /\ stations' = WithActive(stations, r.station, r.newActive)
       /\ IF ~r.newActive /\ ~r.showInactive /\ r.selectedStationId = r.station
          THEN SelectionEffect(NoId, requests \ {r})
          ELSE /\ requests' = requests \ {r}
               /\ UNCHANGED <<selectedStationId, guardVars>>
       /\ UNCHANGED <<logVars, renameVars, lastConfirm, lastSubmit, currentType, loading, error, allGuards, assignModalOpen,
                      showInactive, formVars, serverGuards, nextId>>

\* lines 528-531: setStationActive rejected
setStationActiveFail ==
    \E r \in requests :
       /\ r.kind = "toggle"
       /\ requests' = requests \ {r}
       /\ error' = "Failed to update station status"
       /\ UNCHANGED <<logVars, renameVars, lastConfirm, lastSubmit, currentType, stations, selectedStationId, loading,
                      guardVars, allGuards, assignModalOpen, showInactive,
                      formVars, serverGuards, nextId>>

----------------------------------------------------------------------------
(* Stations: guard assignment, lines 534-550 and 788-805 *)

\* line 755: Assign... in the detail pane
openAssignModal ==
    /\ HasSelectedStation /\ PageClickable
    /\ assignModalOpen' = TRUE
    /\ UNCHANGED <<logVars, renameVars, lastConfirm, lastSubmit, currentType, stations, selectedStationId, loading, error,
                   guardVars, allGuards, showInactive, formVars, requests,
                   serverGuards, nextId>>

\* lines 788 and 800: onClose / Cancel
closeAssignModal ==
    /\ assignModalOpen
    /\ assignModalOpen' = FALSE
    /\ UNCHANGED <<logVars, renameVars, lastConfirm, lastSubmit, currentType, stations, selectedStationId, loading, error,
                   guardVars, allGuards, showInactive, formVars, requests,
                   serverGuards, nextId>>

\* lines 534-536
handleToggleGuardSelection ==
    /\ assignModalOpen
    /\ \E guardId \in allGuards :
          selectedGuardIds' = IF guardId \in selectedGuardIds
                              THEN selectedGuardIds \ {guardId}
                              ELSE selectedGuardIds \cup {guardId}
    /\ UNCHANGED <<logVars, renameVars, lastConfirm, lastSubmit, currentType, stations, selectedStationId, loading, error,
                   assignedUsers, assignedUsersOf, guardsLoading, allGuards,
                   assignModalOpen, showInactive, formVars, requests,
                   serverGuards, nextId>>

\* a Save that sends only the guards added to those shown as assigned
handleSaveAssignments_Delta ==
    /\ assignModalOpen
    /\ IF ~Truthy(selectedStationId)
       THEN UNCHANGED requests
       ELSE LET call == SaveUpdateReq(selectedStationId,
                                      selectedGuardIds \ assignedUsers)
            IN  /\ CanIssue
                /\ call \notin requests
                /\ requests' = requests \cup {call}
    /\ UNCHANGED <<logVars, renameVars, lastConfirm, lastSubmit, currentType, stations,
                   selectedStationId, loading, error, guardVars, allGuards,
                   assignModalOpen, showInactive, formVars, serverGuards, nextId>>

\* lines 538-542: Save clicked; the call carries the closure's selection
handleSaveAssignments ==
    /\ assignModalOpen
    /\ IF ~Truthy(selectedStationId)
       THEN UNCHANGED requests
       ELSE LET call == SaveUpdateReq(selectedStationId, selectedGuardIds)
            IN  /\ CanIssue
                /\ call \notin requests
                /\ requests' = requests \cup {call}
    /\ UNCHANGED <<logVars, renameVars, lastConfirm, lastSubmit, currentType, stations, selectedStationId, loading, error,
                   guardVars, allGuards, assignModalOpen, showInactive, formVars,
                   serverGuards, nextId>>

\* lines 542-543: updateStationGuards resolved, getStationGuards is issued
updateStationGuardsOk ==
    \E r \in requests :
       /\ r.kind = "saveUpdate"
       /\ serverGuards' = [serverGuards EXCEPT ![r.station] = r.ids]
       /\ requests' = (requests \ {r}) \cup {SaveFetchReq(r.station)}
       /\ UNCHANGED <<logVars, renameVars, lastConfirm, lastSubmit, currentType, stations, selectedStationId, loading, error,
                      guardVars, allGuards, assignModalOpen, showInactive,
                      formVars, nextId>>

\* lines 543-545: the getStationGuards of Save resolved
saveRefetchOk ==
    \E r \in requests :
       /\ r.kind = "saveFetch"
       /\ requests' = requests \ {r}
       /\ assignedUsers' = serverGuards[r.station]
       /\ assignedUsersOf' = r.station
       /\ assignModalOpen' = FALSE
       /\ UNCHANGED <<logVars, renameVars, lastConfirm, lastSubmit, currentType, stations, selectedStationId, loading, error,
                      selectedGuardIds, guardsLoading, allGuards, showInactive,
                      formVars, serverGuards, nextId>>

\* lines 546-549: either call of Save rejected
saveFail ==
    \E r \in requests :
       /\ r.kind \in {"saveUpdate", "saveFetch"}
       /\ requests' = requests \ {r}
       /\ error' = "Failed to update station guards"
       /\ UNCHANGED <<logVars, renameVars, lastConfirm, lastSubmit, currentType, stations, selectedStationId, loading,
                      guardVars, allGuards, assignModalOpen, showInactive,
                      formVars, serverGuards, nextId>>

----------------------------------------------------------------------------
(* Stations: Add Station, lines 554-604 and 808-838 *)

\* lines 554-559
openCreateModal ==
    /\ PageClickable
    /\ createName' = <<>>
    /\ createType' = currentType
    /\ createError' = NoError
    /\ createModalOpen' = TRUE
    /\ UNCHANGED <<logVars, renameVars, lastConfirm, lastSubmit, currentType, stations, selectedStationId, loading, error,
                   guardVars, allGuards, assignModalOpen, showInactive,
                   createSubmitting, requests, serverGuards, nextId>>

\* line 808: onClose
closeCreateModal ==
    /\ createModalOpen
    /\ createModalOpen' = FALSE
    /\ UNCHANGED <<logVars, renameVars, lastConfirm, lastSubmit, currentType, stations, selectedStationId, loading, error,
                   guardVars, allGuards, assignModalOpen, showInactive,
                   createName, createType, createSubmitting, createError,
                   requests, serverGuards, nextId>>

\* line 824: one of names is typed
setCreateName(names) ==
    /\ createModalOpen
    /\ \E n \in names : createName' = n
    /\ UNCHANGED <<logVars, renameVars, lastConfirm, lastSubmit, currentType, stations, selectedStationId, loading, error,
                   guardVars, allGuards, assignModalOpen, showInactive,
                   createModalOpen, createType, createSubmitting, createError,
                   requests, serverGuards, nextId>>

\* lines 813-818
setCreateType ==
    /\ createModalOpen
    /\ \E t \in {"gate", "building"} : createType' = t
    /\ UNCHANGED <<logVars, renameVars, lastConfirm, lastSubmit, currentType, stations, selectedStationId, loading, error,
                   guardVars, allGuards, assignModalOpen, showInactive,
                   createModalOpen, createName, createSubmitting, createError,
                   requests, serverGuards, nextId>>

\* line 570
NameExists(rawName) ==
    \E i \in 1..Len(stations) :
        toLowerCase(OrEmpty(stations[i].name)) = toLowerCase(rawName)

\* lines 576-579 (and 633-636)
FinalName(rawName, type) ==
    IF type = "gate" /\ ~includes(toLowerCase(rawName), sGate)
    THEN sGatePfx \o rawName
    ELSE rawName

\* a create that lists the new station at the click, before the backend answers
handleCreateStation_Optimistic ==
    /\ createModalOpen /\ ~createSubmitting
    /\ lastSubmit' = "create"
    /\ LET rawName == trim(createName)
       IN  IF rawName = <<>>
           THEN /\ createError' = "Please enter a station name."
                /\ UNCHANGED <<createSubmitting, requests, stations>>
           ELSE IF NameExists(rawName)
           THEN /\ createError' = "A station with that name already exists."
                /\ UNCHANGED <<createSubmitting, requests, stations>>
           ELSE /\ CanIssue
                /\ nextId < FirstNewId + MaxCreated
                /\ createError' = NoError
                /\ createSubmitting' = TRUE
                /\ stations' = Append(stations,
                       [id |-> nextId, name |-> FinalName(rawName, createType),
                        stationType |-> TypeName(createType), active |-> TRUE])
                /\ requests' = requests \cup
                      {CreateReq(FinalName(rawName, createType),
                                 TypeName(createType), rawName)}
    /\ UNCHANGED <<logVars, renameVars, lastConfirm, currentType, selectedStationId, loading, error,
                   guardVars, allGuards, assignModalOpen, showInactive,
                   createModalOpen, createName, createType, serverGuards, nextId>>

\* lines 561-588: Create clicked (the button is disabled while submitting)
handleCreateStation ==
    /\ createModalOpen /\ ~createSubmitting
    /\ lastSubmit' = "create"
    /\ LET rawName == trim(createName)
       IN  IF rawName = <<>>
           THEN /\ createError' = "Please enter a station name."
                /\ UNCHANGED <<createSubmitting, requests>>
           ELSE IF NameExists(rawName)
           THEN /\ createError' = "A station with that name already exists."
                /\ UNCHANGED <<createSubmitting, requests>>
           ELSE /\ CanIssue
                /\ nextId < FirstNewId + MaxCreated
                /\ createError' = NoError
                /\ createSubmitting' = TRUE
                /\ requests' = requests \cup
                      {CreateReq(FinalName(rawName, createType),
                                 TypeName(createType), rawName)}
    /\ UNCHANGED <<logVars, renameVars, lastConfirm, currentType, stations, selectedStationId, loading, error,
                   guardVars, allGuards, assignModalOpen, showInactive,
                   createModalOpen, createName, createType, serverGuards, nextId>>

\* lines 584-597 and 601-603: createStation resolved with the stored station
createStationOk ==
    \E r \in requests :
       /\ r.kind = "create"
       /\ requests' = requests \ {r}
       /\ stations' = Append(stations,
              [id |-> nextId, name |-> r.name, stationType |-> r.stationType,
               active |-> TRUE])
       /\ nextId' = nextId + 1
       /\ createModalOpen' = FALSE
       /\ createSubmitting' = FALSE
       /\ UNCHANGED <<logVars, renameVars, lastConfirm, lastSubmit, currentType, selectedStationId, loading, error, guardVars,
                      allGuards, assignModalOpen, showInactive, createName,
                      createType, createError, serverGuards>>

\* lines 598-603: createStation rejected
createStationFail ==
    \E r \in requests :
       /\ r.kind = "create"
       /\ requests' = requests \ {r}
       /\ createError' = "Failed to create station."
       /\ createSubmitting' = FALSE
       /\ UNCHANGED <<logVars, renameVars, lastConfirm, lastSubmit, currentType, stations, selectedStationId, loading, error,
                      guardVars, allGuards, assignModalOpen, showInactive,
                      createModalOpen, createName, createType, serverGuards,
                      nextId>>

----------------------------------------------------------------------------
(* Stations: Edit Station, lines 608-670 and 841-871 *)

\* the names typed into the forms when stations are created and edited
EditNames == { sBlank, s3 }

\* the one name typed into the forms when the station list is changed
ChangeNames == { sBlank, s3 }

\* the station list behind the Add Station and Edit Station handlers
EditedStations ==
    << Station(1, sGate1, NULL, {}), Station(2, sGate9, sKiosk, {TRUE}) >>

\* the station list behind the operations that change it: under the Gates
\* tab the first station is listed and the second is not
ChangedStations ==
    << Station(1, sGate1, NULL, {}), Station(2, sLobbyPad, sBuilding, {TRUE}) >>

\* the station of the detail pane (line 399), when HasSelectedStation
selectedStation ==
    stations[CHOOSE i \in 1..Len(stations) :
                /\ stations[i].id = selectedStationId
                /\ \A j \in 1..(i - 1) : stations[j].id # selectedStationId]

\* lines 608-622: Edit in the detail pane
openRenameModal ==
    /\ HasSelectedStation /\ PageClickable
    /\ renameName' = OrEmpty(selectedStation.name)
    /\ LET rawType == toLowerCase(OrEmpty(selectedStation.stationType))
       IN  renameType' = IF rawType = sGate THEN "gate"
                         ELSE IF rawType = sBuilding THEN "building"
                         ELSE currentType
    /\ renameError' = NoError
    /\ renameModalOpen' = TRUE
    /\ UNCHANGED <<logVars, lastConfirm, lastSubmit, currentType, stations, selectedStationId,
                   loading, error, guardVars, allGuards, assignModalOpen,
                   showInactive, formVars, renameSubmitting, requests,
                   serverGuards, nextId>>

\* line 841: onClose
closeRenameModal ==
    /\ renameModalOpen
    /\ renameModalOpen' = FALSE
    /\ UNCHANGED <<logVars, lastConfirm, lastSubmit, currentType, stations, selectedStationId,
                   loading, error, guardVars, allGuards, assignModalOpen,
                   showInactive, formVars, renameName, renameType, renameError,
                   renameSubmitting, requests, serverGuards, nextId>>

\* line 857: one of names is typed
setRenameName(names) ==
    /\ renameModalOpen
    /\ \E n \in names : renameName' = n
    /\ UNCHANGED <<logVars, lastConfirm, lastSubmit, currentType, stations, selectedStationId,
                   loading, error, guardVars, allGuards, assignModalOpen,
                   showInactive, formVars, renameModalOpen, renameType,
                   renameError, renameSubmitting, requests, serverGuards, nextId>>

\* lines 846-851
setRenameType ==
    /\ renameModalOpen
    /\ \E t \in {"gate", "building"} : renameType' = t
    /\ UNCHANGED <<logVars, lastConfirm, lastSubmit, currentType, stations, selectedStationId,
                   loading, error, guardVars, allGuards, assignModalOpen,
                   showInactive, formVars, renameModalOpen, renameName,
                   renameError, renameSubmitting, requests, serverGuards, nextId>>

\* a prefix rule that looks for "gate" in the name as typed, case-sensitively
RenameFinalName_CaseSensitive(rawName, type) ==
    IF type = "gate" /\ ~includes(rawName, sGate)
    THEN sGatePfx \o rawName
    ELSE rawName

\* lines 633-636
RenameFinalName(rawName, type) ==
    IF type = "gate" /\ ~includes(toLowerCase(rawName), sGate)
    THEN sGatePfx \o rawName
    ELSE rawName

\* a Save that tests the typed name without trimming it
handleRenameStation_NoTrim ==
    /\ renameModalOpen /\ ~renameSubmitting
    /\ lastSubmit' = "rename"
    /\ IF ~HasSelectedStation
       THEN UNCHANGED <<renameError, renameSubmitting, requests>>
       ELSE LET rawName == renameName
            IN  IF rawName = <<>>
                THEN /\ renameError' = "Please enter a station name."
                     /\ UNCHANGED <<renameSubmitting, requests>>
                ELSE LET call == RenameReq(selectedStation.id,
                                           RenameFinalName(rawName, renameType),
                                           TypeName(renameType),
                                           selectedStation.active, rawName)
                     IN  /\ CanIssue
                         /\ renameSubmitting' = TRUE
                         /\ requests' = requests \cup {call}
                         /\ UNCHANGED renameError
    /\ UNCHANGED <<logVars, lastConfirm, currentType, stations, selectedStationId,
                   loading, error, guardVars, allGuards, assignModalOpen,
                   showInactive, formVars, renameModalOpen, renameName,
                   renameType, serverGuards, nextId>>

\* lines 624-648: Save clicked (the button is disabled while submitting)
handleRenameStation ==
    /\ renameModalOpen /\ ~renameSubmitting
    /\ lastSubmit' = "rename"
    /\ IF ~HasSelectedStation
       THEN UNCHANGED <<renameError, renameSubmitting, requests>>
       ELSE LET rawName == trim(renameName)
            IN  IF rawName = <<>>
                THEN /\ renameError' = "Please enter a station name."
                     /\ UNCHANGED <<renameSubmitting, requests>>
                ELSE LET call == RenameReq(selectedStation.id,
                                           RenameFinalName(rawName, renameType),
                                           TypeName(renameType),
                                           selectedStation.active, rawName)
                     IN  /\ CanIssue
                         /\ renameSubmitting' = TRUE
                         /\ requests' = requests \cup {call}
                         /\ UNCHANGED renameError
    /\ UNCHANGED <<logVars, lastConfirm, currentType, stations, selectedStationId,
                   loading, error, guardVars, allGuards, assignModalOpen,
                   showInactive, formVars, renameModalOpen, renameName,
                   renameType, serverGuards, nextId>>

\* lines 650-661: the station of the call takes what the backend stored
Renamed(list, r) ==
    [i \in 1..Len(list) |->
        IF list[i].id = r.station
        THEN [list[i] EXCEPT !.name = r.name, !.stationType = r.stationType,
                             !.active = r.active]
        ELSE list[i]]

\* lines 643-663 and 667-669: updateStation resolved with the stored station
updateStationOk ==
    \E r \in requests :
       /\ r.kind = "rename"
       /\ requests' = requests \ {r}
       /\ stations' = Renamed(stations, r)
       /\ renameModalOpen' = FALSE
       /\ renameSubmitting' = FALSE
       /\ UNCHANGED <<logVars, lastConfirm, lastSubmit, currentType, selectedStationId, loading,
                      error, guardVars, allGuards, assignModalOpen, showInactive,
                      formVars, renameName, renameType, renameError,
                      serverGuards, nextId>>

\* lines 664-669: updateStation rejected
updateStationFail ==
    \E r \in requests :
       /\ r.kind = "rename"
       /\ requests' = requests \ {r}
       /\ renameError' = "Failed to rename station."
       /\ renameSubmitting' = FALSE
       /\ UNCHANGED <<logVars, lastConfirm, lastSubmit, currentType, stations, selectedStationId,
                      loading, error, guardVars, allGuards, assignModalOpen,
                      showInactive, formVars, renameModalOpen, renameName,
                      renameType, serverGuards, nextId>>

----------------------------------------------------------------------------
(* Specifications *)

Init == LogBookInit /\ StationsInit

\* the LogBook component, as written
NextLogBook ==
    \/ fetchFulfilled
    \/ fetchRejected
    \/ fetchLogsOk(LogLists)
    \/ fetchLogsFail
    \/ onStatusChange
    \/ onLocationChange
    \/ onSearchChange
    \/ onPageChange
    \/ onPageSizeChange

SpecLogBook == Init /\ [][NextLogBook]_vars

\* the LogBook component when every call is answered or fails in the end and
\* the continuation of a settled promise is run
SpecLogBookLive ==
    /\ SpecLogBook
    /\ WF_vars(fetchFulfilled \/ fetchRejected)
    /\ WF_vars(fetchLogsOk(LogLists))
    /\ WF_vars(fetchLogsFail)

\* the LogBook component with a PaginationControls that requests only pages
\* of the view it displays
NextLogBookInRange ==
    \/ fetchFulfilled
    \/ fetchRejected
    \/ fetchLogsOk(LogLists)
    \/ fetchLogsFail
    \/ onStatusChange
    \/ onLocationChange
    \/ onSearchChange
    \/ onPageChangeInRange
    \/ onPageSizeChange

SpecLogBookInRange == Init /\ [][NextLogBookInRange]_vars

\* Stations: selection, the guard fetch of the selection effect, activation
NextSelection ==
    \/ fetchStationsAndGuardsOk({GuardedStations})
    \/ fetchStationsAndGuardsFail
    \/ setShowInactive
    \/ selectStation
    \/ closeDetails
    \/ getStationGuardsOk
    \/ getStationGuardsFail
    \/ handleToggleStationActive
    \/ setStationActiveOk
    \/ setStationActiveFail

SpecSelection == Init /\ [][NextSelection]_vars

\* Stations: selection, the guard fetch of the selection effect, the Assign
\* Guards modal and Save
NextGuards ==
    \/ fetchStationsAndGuardsOk({GuardedStations})
    \/ fetchStationsAndGuardsFail
    \/ selectStation
    \/ closeDetails
    \/ getStationGuardsOk
    \/ getStationGuardsFail
    \/ openAssignModal
    \/ closeAssignModal
    \/ handleToggleGuardSelection
    \/ handleSaveAssignments
    \/ updateStationGuardsOk
    \/ saveRefetchOk
    \/ saveFail

SpecGuards == Init /\ [][NextGuards]_vars

\* Stations: the station list, its tab and checkbox, and Add Station
NextList ==
    \/ fetchStationsAndGuardsOk(ListedStations)
    \/ fetchStationsAndGuardsFail
    \/ setCurrentType
    \/ setShowInactive
    \/ openCreateModal
    \/ closeCreateModal
    \/ setCreateName(CreateNames)
    \/ setCreateType
    \/ handleCreateStation
    \/ createStationOk
    \/ createStationFail

SpecList == Init /\ [][NextList]_vars

\* Stations: the Add Station and Edit Station forms up to the submission of
\* the call, with the selection that Edit needs
NextForms ==
    \/ fetchStationsAndGuardsOk({EditedStations})
    \/ fetchStationsAndGuardsFail
    \/ selectStation
    \/ getStationGuardsOk
    \/ openCreateModal
    \/ closeCreateModal
    \/ setCreateName(EditNames)
    \/ setCreateType
    \/ handleCreateStation
    \/ openRenameModal
    \/ closeRenameModal
    \/ setRenameName(EditNames)
    \/ setRenameType
    \/ handleRenameStation

SpecForms == Init /\ [][NextForms]_vars

\* LogBook: the load, with the logs of the statistics page
NextStats ==
    \/ fetchFulfilled
    \/ fetchRejected
    \/ fetchLogsOk(StatsLogLists)
    \/ fetchLogsFail

SpecStats == Init /\ [][NextStats]_vars

\* Stations: what decides which stations are listed (tab, show-inactive,
\* activation, Edit Station) next to the selection
NextView ==
    \/ fetchStationsAndGuardsOk({GuardedStations})
    \/ fetchStationsAndGuardsFail
    \/ setCurrentType
    \/ setShowInactive
    \/ selectStation
    \/ getStationGuardsOk
    \/ handleToggleStationActive
    \/ setStationActiveOk
    \/ openRenameModal
    \/ setRenameType
    \/ handleRenameStation
    \/ updateStationOk

SpecView == Init /\ [][NextView]_vars

\* Stations: selection and guard assignment over station lists that hold a
\* station with id 0
NextIds ==
    \/ fetchStationsAndGuardsOk(ListedStations)
    \/ fetchStationsAndGuardsFail
    \/ setCurrentType
    \/ selectStation
    \/ closeDetails
    \/ getStationGuardsOk
    \/ openAssignModal
    \/ closeAssignModal
    \/ handleToggleGuardSelection
    \/ handleSaveAssignments
    \/ updateStationGuardsOk
    \/ saveRefetchOk

SpecIds == Init /\ [][NextIds]_vars

\* Stations: the three operations that change the station list (activation,
\* Edit Station, Add Station) with a backend that answers or fails; a new
\* station is refused here, SpecList has the stations that are created
NextChanges ==
    \/ fetchStationsAndGuardsOk({ChangedStations})
    \/ fetchStationsAndGuardsFail
    \/ selectStation
    \/ getStationGuardsOk
    \/ handleToggleStationActive
    \/ setStationActiveOk
    \/ setStationActiveFail
    \/ openCreateModal
    \/ setCreateName(ChangeNames)
    \/ handleCreateStation
    \/ createStationFail
    \/ openRenameModal
    \/ closeRenameModal
    \/ setRenameName(ChangeNames)
    \/ handleRenameStation
    \/ updateStationOk
    \/ updateStationFail

SpecChanges == Init /\ [][NextChanges]_vars

----------------------------------------------------------------------------
(* Properties *)

\* out holds exactly the elements of in at the indices keep, in their order
IsSelection(out, in, keep) ==
    /\ Len(out) = Cardinality(keep)
    /\ \A k \in 1..Len(out) :
          out[k] = in[CHOOSE i \in keep : Cardinality({j \in keep : j <= i}) = k]

\* the three predicates of the log filter, as the specification states them
StatusPasses(e) ==
    CASE statusFilter = "active"   -> e.visitorLogID \in activeLogIds
      [] statusFilter = "inactive" -> e.visitorLogID \notin activeLogIds
      [] OTHER                     -> TRUE

LocationPasses(e) ==
    locationFilter # sAll =>
        LET loc == trim(toLowerCase(OrEmpty(e.location)))
        IN  loc # <<>> /\ loc = trim(toLowerCase(locationFilter))

SearchPasses(e) ==
    search # <<>> =>
        \E field \in { OrEmpty(e.fullName), OrEmpty(e.idType), OrEmpty(e.passNo),
                       OrEmpty(e.location), OrEmpty(e.purposeOfVisit),
                       OrEmpty(e.loggedBy), OrEmpty(e.date), OrEmpty(e.time) } :
            includes(toLowerCase(field), toLowerCase(search))

\* C1: the filtered log list is the subsequence of the log list, in the
\* original order, of exactly the entries that pass the status, the location
\* and the text-search predicate.
C1_FilterIsExactSubsequence ==
    IsSelection(filteredLogs, data,
                { i \in 1..Len(data) :
                    StatusPasses(data[i]) /\ LocationPasses(data[i])
                        /\ SearchPasses(data[i]) })

\* all three criteria are set, some entry passes and some entry is dropped
C1_Witness ==
    /\ statusFilter = "active"
    /\ locationFilter # sAll
    /\ search # <<>>
    /\ 0 < Len(filteredLogs)
    /\ Len(filteredLogs) < Len(data)

\* C4: for every displayed log row whose trimmed location equals,
\* case-insensitively, the trimmed name of a station, the icon of the row is
\* the icon that the Stations list and detail header give that station.
C4_IconsAgree ==
    \A k \in 1..Len(pagedLogs) : \A i \in 1..Len(logStations) :
        LET loc == trim(OrEmpty(pagedLogs[k].location))
        IN  (loc # <<>> /\ toLowerCase(loc)
                              = toLowerCase(trim(OrEmpty(logStations[i].name))))
            => /\ locationIcon(pagedLogs[k]) = StationIcon(logStations[i])
               /\ locationIcon(pagedLogs[k]) = HeaderIcon(logStations[i])

\* C9: when page-change events request only pages of the displayed view, the
\* stored page is 0 when there is no page and at most totalPages - 1
\* otherwise, so that it equals currentPage.
C9_PageNeverDangles ==
    /\ IF totalPages = 0 THEN page = 0 ELSE page <= totalPages - 1
    /\ page = currentPage

\* a later page of a searched view is displayed
C9_Witness ==
    /\ search # <<>>
    /\ page >= 1
    /\ page = totalPages - 1

\* the page displayed for stored page p over n entries in pages of size:
\* the last page not after p that starts inside the entries, page 0 when
\* there is no entry
ClampedPage(p, n, size) ==
    LET starts == { q \in 0..p : q * size < n }
    IN  IF starts = {} THEN 0 ELSE CHOOSE q \in starts : \A r \in starts : r <= q

\* C10: for every stored page, currentPage is the stored page clamped into the
\* pages of the filtered list, the displayed page is the slice of at most
\* pageSize entries that starts at currentPage * pageSize, and it is not empty
\* unless the filtered list is.
C10_SliceUsesClampedPage ==
    LET filtered == filteredLogs
        total    == Len(filtered)
        pages    == totalPages
        shown    == pagedLogs
        clamped  == ClampedPage(page, total, pageSize)
        from     == clamped * pageSize
        n        == Min(pageSize, total - from)
    IN  /\ currentPage = clamped
        /\ pages = 0 => clamped = 0
        /\ pages > 0 => clamped = Min(page, pages - 1)
        /\ shown = [k \in 1..n |-> filtered[from + k]]
        /\ Len(shown) <= pageSize
        /\ filtered # <<>> => shown # <<>>

\* the stored page lies beyond the last page and the last page is displayed
C10_Witness ==
    /\ totalPages >= 2
    /\ page > totalPages - 1
    /\ pagedLogs # <<>>

\* the slice that line 111 takes for page p
PageAt(p) == slice(filteredLogs, p * pageSize, p * pageSize + pageSize)

\* C11: the pages 0..totalPages-1 partition the filtered list: their slices,
\* concatenated in order, are the filtered list, no entry is on two pages,
\* totalPages is the ceiling of totalElements / pageSize, and it is 0 exactly
\* when there is no entry.
C11_PagesPartition ==
    LET pages == [p \in 1..totalPages |-> PageAt(p - 1)]
    IN  /\ Concat(pages) = filteredLogs
        /\ \A p \in 1..totalPages :
              /\ pages[p] # <<>>
              /\ Len(pages[p]) <= pageSize
              /\ \A q \in (p + 1)..totalPages :
                    \A i \in 1..Len(pages[p]), j \in 1..Len(pages[q]) :
                        pages[p][i] # pages[q][j]
        /\ totalPages * pageSize >= totalElements
        /\ totalPages > 0 => (totalPages - 1) * pageSize < totalElements
        /\ totalPages = 0 <=> totalElements = 0

\* a searched list that is shown on several pages
C11_Witness ==
    /\ totalPages >= 2
    /\ search # <<>>

\* C12: every step that changes the status filter, the location filter, the
\* search text or the page size sets the stored page to 0.
C12_CriteriaChangeResetsPage ==
    [][ ( \/ statusFilter' # statusFilter
          \/ locationFilter' # locationFilter
          \/ search' # search
          \/ pageSize' # pageSize )
        => page' = 0 ]_vars

\* every criterion and the page size have been changed, several pages are
\* displayed and the stored page is the first one
C12_Witness ==
    /\ statusFilter # "all"
    /\ locationFilter # sAll
    /\ search # <<>>
    /\ pageSize # DefaultPageSize
    /\ totalPages >= 2
    /\ page = 0

\* C13: filtering the filtered list again, with the same active ids and
\* criteria, returns it unchanged.
C13_FilterIdempotent ==
    filterLogs(filteredLogs) = filteredLogs

\* a filter that keeps some entries and drops others
C13_Witness ==
    /\ filteredLogs # <<>>
    /\ Len(filteredLogs) < Len(data)
    /\ search # <<>>
    /\ statusFilter = "inactive"

\* C14: the load of LogBook is all-or-nothing: the logs, the active ids and
\* the stations are set only when all three calls have succeeded; when one of
\* them fails none of the three is set and, once loading has ended, the one
\* error state is set; the page is rendered only after a complete load; and
\* loading ends in either case.
C14_LoadAllOrNothing ==
    /\ []( (data # <<>> \/ activeLogIds # {} \/ logStations # <<>>)
            => /\ \A f \in Fetches : fetchState[f] = "fulfilled"
               /\ logError = NoError )
    /\ []( (\E f \in Fetches : fetchState[f] = "rejected")
            => /\ data = <<>> /\ activeLogIds = {} /\ logStations = <<>>
               /\ ~logLoading => logError = "Failed to load visitor logs."
               /\ ~LogBookShown )
    /\ []( LogBookShown => \A f \in Fetches : fetchState[f] = "fulfilled" )
    /\ <>[](~logLoading)

\* getAllLogs and getActiveLogs were answered, getAllStations failed, and
\* loading has ended with the error
C14_Witness ==
    /\ fetchState["getAllLogs"] = "fulfilled"
    /\ fetchState["getActiveLogs"] = "fulfilled"
    /\ fetchState["getAllStations"] = "rejected"
    /\ ~logLoading
    /\ logError # NoError

----------------------------------------------------------------------------
(* Properties of the Stations component *)

UncancelledGuardFetch ==
    \E r \in requests : r.kind = "guards" /\ ~r.cancelled

\* C2: when a station is selected while the guard fetch of the previously
\* selected station is pending, then, once the fetch of the current selection
\* has resolved, assignedUsers and selectedGuardIds hold the guards of the
\* current selection, whether the earlier fetch resolves before or after it.
C2_SelectionStaleness ==
    (selectedStationId # NoId /\ error = NoError /\ ~UncancelledGuardFetch)
    => /\ assignedUsersOf = selectedStationId
       /\ assignedUsers = serverGuards[selectedStationId]
       /\ selectedGuardIds = serverGuards[selectedStationId]

\* the fetch of the current selection has resolved while the fetch of the
\* station selected before it is still in flight
C2_Witness ==
    /\ selectedStationId # NoId
    /\ error = NoError
    /\ ~UncancelledGuardFetch
    /\ assignedUsersOf = selectedStationId
    /\ \E r \in requests :
          r.kind = "guards" /\ r.cancelled /\ r.station # selectedStationId

\* C3: no response of a getStationGuards call issued for a previously selected
\* station overwrites assignedUsers once another station is selected: while a
\* station is selected and its guards are not loading, the guards shown are
\* those fetched for that station.
C3_NoStaleOverwrite ==
    (selectedStationId # NoId /\ error = NoError /\ ~guardsLoading
        /\ assignedUsersOf # NoId)
    => assignedUsersOf = selectedStationId

\* C7: when setStationActive resolves reporting the station inactive, and at
\* that moment the station is the selected one and inactive stations are not
\* shown, the selection is cleared.
C7_ToggleClearsSelection ==
    [][ \A r \in requests :
          ( /\ r.kind = "toggle"
            /\ r \notin requests'
            /\ error = NoError /\ error' = NoError
            /\ ~r.newActive
            /\ selectedStationId = r.station
            /\ ~showInactive )
          => selectedStationId' = NoId ]_vars

\* everything but the record of the answer to window.confirm
exceptConfirm ==
    <<logVars, currentType, stations, selectedStationId, loading, error,
      guardVars, allGuards, assignModalOpen, showInactive, formVars, renameVars,
      lastSubmit, requests, serverGuards, nextId>>

\* C15: a toggle that the operator confirms issues exactly one
\* setStationActive call, for the station clicked, with the negation of its
\* effective active flag (anything but false counts as active); a toggle that
\* the operator declines issues no call and changes no state; no other step
\* issues such a call, and the requested value is true or false.
C15_ToggleIsNegation ==
    [][ /\ handleToggleStationActive
           => \/ /\ lastConfirm' = "cancel"
                 /\ UNCHANGED exceptConfirm
              \/ /\ lastConfirm' = "ok"
                 /\ stations' = stations
                 /\ \E i \in 1..Len(filteredStations) :
                       LET s == filteredStations[i]
                       IN  \E r \in requests' \ requests :
                              /\ requests' = requests \cup {r}
                              /\ r.kind = "toggle"
                              /\ r.station = s.id
                              /\ r.newActive = ~(s.active # FALSE)
        /\ \A r \in requests' \ requests :
              r.kind = "toggle"
              => /\ handleToggleStationActive
                 /\ lastConfirm' = "ok"
                 /\ r.newActive \in BOOLEAN ]_vars

\* the operator confirmed the first toggle of the station whose flag the
\* backend left out: deactivation is requested
C15_Witness ==
    /\ lastConfirm = "ok"
    /\ \E r \in requests :
          /\ r.kind = "toggle"
          /\ r.station = 2
          /\ GuardedStations[2].active = {}
          /\ ~r.newActive

\* C16: Save issues one updateStationGuards call that carries the selected
\* station and exactly the guards selected at that moment, and the backend
\* replaces the station's guards by them; a guard toggle flips that guard
\* alone and issues no call; no other step issues an update.
C16_SaveSendsFullSelection ==
    [][ /\ \A r \in requests' \ requests :
              r.kind = "saveUpdate"
              => /\ handleSaveAssignments
                 /\ requests' = requests \cup {r}
                 /\ r.station = selectedStationId
                 /\ r.ids = selectedGuardIds
        /\ handleToggleGuardSelection
           => /\ \E g \in allGuards :
                    /\ (g \in selectedGuardIds') # (g \in selectedGuardIds)
                    /\ \A h \in allGuards \ {g} :
                          (h \in selectedGuardIds') = (h \in selectedGuardIds)
              /\ requests' = requests
              /\ serverGuards' = serverGuards
        /\ serverGuards' # serverGuards
           => \E r \in requests \ requests' :
                 /\ r.kind = "saveUpdate"
                 /\ serverGuards' = [serverGuards EXCEPT ![r.station] = r.ids] ]_vars

\* Save was clicked with a guard added to the one shown as assigned: the call
\* carries both
C16_Witness ==
    \E r \in requests :
       /\ r.kind = "saveUpdate"
       /\ r.station = selectedStationId
       /\ assignedUsers = {1}
       /\ r.ids = {1, 2}

----------------------------------------------------------------------------
(* Properties of the station list *)

\* classify of the specification: the type when it is gate or building, the
\* name heuristic when the type is missing or unknown
Classify(s) ==
    LET type == toLowerCase(OrEmpty(s.stationType))
    IN  IF type = sGate THEN "gate"
        ELSE IF type = sBuilding THEN "building"
        ELSE IF includes(toLowerCase(OrEmpty(s.name)), sGate) THEN "gate"
        ELSE "building"

\* C5: for every station the icon in the list and in the detail header is the
\* gate icon exactly when classify gives GATE, so that a named station is never
\* listed under a tab that disagrees with its icon.
C5_IconIsClassify ==
    /\ \A i \in 1..Len(stations) :
          /\ StationIcon(stations[i]) = Classify(stations[i])
          /\ HeaderIcon(stations[i]) = Classify(stations[i])
    /\ \A i \in 1..Len(filteredStations) :
          OrEmpty(filteredStations[i].name) # <<>>
          => StationIcon(filteredStations[i]) = currentType

NoName(s)           == OrEmpty(s.name) = <<>>
NoType(s)           == OrEmpty(s.stationType) = <<>>
NoRecognisedType(s) == toLowerCase(OrEmpty(s.stationType)) \notin {sGate, sBuilding}

ListedUnderBoth(s) ==
    StationListed(s, "gate", showInactive) /\ StationListed(s, "building", showInactive)

\* C6 as stated: the displayed list is the station list, in its order,
\* restricted to the stations that classify under the selected tab or have
\* neither a name nor a type, and that are active unless inactive stations are
\* shown; a station with a stationType is never listed under both tabs.
C6_ListAsStated ==
    /\ IsSelection(filteredStations, stations,
          { i \in 1..Len(stations) :
              /\ Classify(stations[i]) = currentType
                    \/ (NoName(stations[i]) /\ NoType(stations[i]))
              /\ showInactive \/ stations[i].active # FALSE })
    /\ \A i \in 1..Len(stations) :
          ~NoType(stations[i]) => ~ListedUnderBoth(stations[i])

\* C6: the displayed list is the station list, in its order, restricted to the
\* stations that classify under the selected tab or have an empty or missing
\* name and no recognised type (a stationType that is missing or is neither
\* gate nor building), and that are active unless inactive stations are shown;
\* a station whose stationType is gate or building is never listed under both
\* tabs, and the type decides before the name.
C6_ListAsAmended ==
    /\ IsSelection(filteredStations, stations,
          { i \in 1..Len(stations) :
              /\ Classify(stations[i]) = currentType
                    \/ (NoName(stations[i]) /\ NoRecognisedType(stations[i]))
              /\ showInactive \/ stations[i].active # FALSE })
    /\ \A i \in 1..Len(stations) :
          ~NoRecognisedType(stations[i]) => ~ListedUnderBoth(stations[i])

\* under the Gates tab a station of type building whose name contains "gate"
\* is left out, and a station with an unknown type and no name is listed
C6_Witness ==
    /\ currentType = "gate"
    /\ \E i \in 1..Len(stations) :
          /\ toLowerCase(OrEmpty(stations[i].stationType)) = sBuilding
          /\ includes(toLowerCase(OrEmpty(stations[i].name)), sGate)
          /\ \A k \in 1..Len(filteredStations) : filteredStations[k] # stations[i]
    /\ \E k \in 1..Len(filteredStations) :
          NoName(filteredStations[k]) /\ ~NoType(filteredStations[k])

\* C8: no createStation call is issued for an input whose trimmed name equals,
\* case-insensitively, the trimmed name of an existing station.
C8_DuplicateNeverSubmitted ==
    \A r \in requests :
        r.kind = "create"
        => ~\E i \in 1..Len(stations) :
               toLowerCase(trim(OrEmpty(stations[i].name))) = toLowerCase(r.rawName)

----------------------------------------------------------------------------
(* Stations: what a failed call leaves behind *)

\* C17: a rejected createStation, updateStation or setStationActive leaves the
\* station list as it was and issues no further call (nothing is retried); a
\* click on Create, Save or Activate/Deactivate changes nothing in the list
\* before the backend answers; the list changes only when the load, a create,
\* a rename or a toggle is answered successfully.
C17_OnlySuccessChangesList ==
    [][ /\ (createStationFail \/ updateStationFail \/ setStationActiveFail)
            => /\ stations' = stations
               /\ requests' \subseteq requests
        /\ (handleCreateStation \/ handleRenameStation \/ handleToggleStationActive)
            => stations' = stations
        /\ stations' # stations
            => \E r \in requests \ requests' :
                  /\ r.kind \in {"load", "create", "rename", "toggle"}
                  /\ ~(createStationFail \/ updateStationFail
                         \/ setStationActiveFail \/ fetchStationsAndGuardsFail)
      ]_vars

\* all three calls have been rejected and the list is still the loaded one
C17_Witness ==
    /\ createError = "Failed to create station."
    /\ renameError = "Failed to rename station."
    /\ error = "Failed to update station status"
    /\ stations = Normalized(ChangedStations)

\* C18 as stated: Create or Save with a name that is empty after trimming sets
\* the empty-name error, issues no call, and leaves the list, the typed name,
\* the category and the open form as they were.
C18_EmptyNameRejected ==
    [][ /\ (handleCreateStation /\ trim(createName) = <<>>)
            => /\ createError' = "Please enter a station name."
               /\ requests' = requests
               /\ stations' = stations
               /\ UNCHANGED <<createName, createType, createModalOpen>>
        /\ (handleRenameStation /\ trim(renameName) = <<>>)
            => /\ renameError' = "Please enter a station name."
               /\ requests' = requests
               /\ stations' = stations
               /\ UNCHANGED <<renameName, renameType, renameModalOpen>>
      ]_vars

\* C18 as amended: the same, for Create always and for Save while the station
\* being edited is still selected; with no selected station Save does nothing
\* at all: no error, no call, list and form as they were.
C18_EmptyNameRejectedWhileSelected ==
    [][ /\ (handleCreateStation /\ trim(createName) = <<>>)
            => /\ createError' = "Please enter a station name."
               /\ requests' = requests
               /\ stations' = stations
               /\ UNCHANGED <<createName, createType, createModalOpen>>
        /\ (handleRenameStation /\ trim(renameName) = <<>>)
            => /\ renameError' = IF HasSelectedStation
                                 THEN "Please enter a station name."
                                 ELSE renameError
               /\ requests' = requests
               /\ stations' = stations
               /\ UNCHANGED <<renameName, renameType, renameModalOpen>>
      ]_vars

\* Save was refused on a blank name and the Edit form closed; the Create form
\* is open on a blank name and shows the empty-name error
C18_Witness ==
    /\ ~renameModalOpen /\ trim(renameName) = <<>>
    /\ renameError = "Please enter a station name."
    /\ createModalOpen /\ trim(createName) = <<>>
    /\ createError = "Please enter a station name."
    /\ stations = Normalized(ChangedStations)
    /\ requests = {}

----------------------------------------------------------------------------
(* Stations: the name that is submitted *)

\* "gate" in any mix of upper and lower case starts at position i of n
GateAt(n, i) ==
    /\ i + 3 <= Len(n)
    /\ n[i] \in {"g", "G"} /\ n[i + 1] \in {"a", "A"}
    /\ n[i + 2] \in {"t", "T"} /\ n[i + 3] \in {"e", "E"}

ContainsGate(n) == \E i \in 1..Len(n) : GateAt(n, i)

\* the typed name without its leading and trailing blanks
Stripped(n) ==
    IF \A k \in 1..Len(n) : n[k] = " " THEN <<>>
    ELSE LET a == CHOOSE k \in 1..Len(n) :
                     n[k] # " " /\ \A h \in 1..(k - 1) : n[h] = " "
             b == CHOOSE k \in 1..Len(n) :
                     n[k] # " " /\ \A h \in (k + 1)..Len(n) : n[h] = " "
         IN  SubSeq(n, a, b)

ExpectedName(typed, category) ==
    IF category = "gate" /\ ~ContainsGate(Stripped(typed))
    THEN <<"G", "a", "t", "e", " ">> \o Stripped(typed)
    ELSE Stripped(typed)

\* C19: a Create or Save that passes validation sends one call whose name is
\* the trimmed typed name, prefixed with "Gate " exactly when the chosen
\* category is gate and the trimmed name does not contain "gate" in any case,
\* and whose category is the chosen one; every name sent with category gate
\* contains "gate" in some case, so the name heuristic says gate as well.
C19_SubmittedName ==
    [][ /\ (handleCreateStation /\ requests' # requests)
            => \E r \in requests' \ requests :
                  /\ requests' = requests \cup {r}
                  /\ r.kind = "create"
                  /\ r.name = ExpectedName(createName, createType)
                  /\ r.stationType = TypeName(createType)
        /\ (handleRenameStation /\ requests' # requests)
            => \E r \in requests' \ requests :
                  /\ requests' = requests \cup {r}
                  /\ r.kind = "rename"
                  /\ r.name = ExpectedName(renameName, renameType)
                  /\ r.stationType = TypeName(renameType)
        /\ \A r \in requests' :
              (r.kind \in {"create", "rename"} /\ r.stationType = sGate)
              => ContainsGate(r.name)
      ]_vars

\* a create of "3" as a gate went out as "Gate 3" while a rename that keeps
\* the name "Gate 1" as a gate went out without a second prefix
C19_Witness ==
    /\ \E r \in requests :
          r.kind = "create" /\ r.rawName = s3 /\ r.stationType = sGate
          /\ r.name = <<"G", "a", "t", "e", " ", "3">>
    /\ \E r \in requests :
          r.kind = "rename" /\ r.rawName = sGate1 /\ r.stationType = sGate
          /\ r.name = sGate1

----------------------------------------------------------------------------
(* LogBook: the most frequent location of the day *)

\* the key of the first log, in log order, whose key is as frequent as any
FirstMostFrequent(keys) ==
    IF keys = <<>> THEN sNA
    ELSE LET n(k) == Cardinality({ j \in 1..Len(keys) : keys[j] = k })
             i    == CHOOSE i \in 1..Len(keys) :
                        /\ \A j \in 1..Len(keys) : n(keys[j]) <= n(keys[i])
                        /\ \A j \in 1..(i - 1) : n(keys[j]) < n(keys[i])
         IN  keys[i]

TodayLocations ==
    LET logs == SelectSeq(data, LAMBDA d : d.date = today)
    IN  [i \in 1..Len(logs) |->
            IF logs[i].location = NULL \/ logs[i].location = <<>>
            THEN sUnknown ELSE logs[i].location]

TodayGates == SelectSeq(TodayLocations, LAMBDA l : ContainsGate(l))

\* C20: once a non-empty log list is loaded, frequentBuilding is the location
\* (unset counted as "Unknown") with the highest count among today's logs and
\* highestGate the same among the locations that contain "gate" in any case;
\* among locations of equal highest count the one met first in log order
\* wins, whatever the location strings are; each is "N/A" without a candidate.
C20_MostFrequentFirstEncountered ==
    (LogBookShown /\ data # <<>>)
    => /\ stats.frequentBuilding = FirstMostFrequent(TodayLocations)
       /\ stats.highestGate = FirstMostFrequent(TodayGates)

----------------------------------------------------------------------------
(* LogBook: the counts of the day *)

TodayRows == { i \in 1..Len(data) : data[i].date = today }

\* C21: once a non-empty log list is loaded, active is the number of logs
\* dated exactly today whose id is in the active set, uniqueToday the number
\* of distinct fullName values among the logs dated exactly today, uniqueWeek
\* and uniqueMonth both the number of distinct fullName values of the whole
\* list; so active is at most the number of today's logs and
\* uniqueToday <= uniqueWeek = uniqueMonth.
C21_CountsOfTheDay ==
    (LogBookShown /\ data # <<>>)
    => /\ stats.hasStats
       /\ stats.active =
             Cardinality({ i \in TodayRows : data[i].visitorLogID \in activeLogIds })
       /\ stats.uniqueToday = Cardinality({ data[i].fullName : i \in TodayRows })
       /\ stats.uniqueWeek =
             Cardinality({ data[i].fullName : i \in 1..Len(data) })
       /\ stats.uniqueMonth = stats.uniqueWeek
       /\ stats.active <= Cardinality(TodayRows)
       /\ stats.uniqueToday <= stats.uniqueWeek

\* a log of today and a log whose date only starts with today, both in the
\* active set, under different names: one active visitor, one name today,
\* two names over the whole list
C21_Witness ==
    /\ LogBookShown
    /\ Len(data) = 2 /\ Cardinality(TodayRows) = 1
    /\ \E i \in 1..Len(data) : data[i].date = todayNoon
    /\ \A i \in 1..Len(data) : data[i].visitorLogID \in activeLogIds
    /\ stats.active = 1 /\ stats.uniqueToday = 1 /\ stats.uniqueWeek = 2

----------------------------------------------------------------------------
(* Stations: the names after Add Station *)

DistinctNames(list) ==
    \A i, j \in 1..Len(list) :
        i # j => toLowerCase(OrEmpty(list[i].name)) # toLowerCase(OrEmpty(list[j].name))

\* C22: a station list whose names differ pairwise, case-insensitively, still
\* has pairwise different names after a create that the backend answers with
\* the submitted name; so the names stay distinct through any sequence of
\* creates, also when the same short name is submitted twice as a gate.
C22_NamesStayUnique ==
    [][ (createStationOk /\ DistinctNames(stations)) => DistinctNames(stations') ]_vars

----------------------------------------------------------------------------
(* Stations: the selection and the list *)

\* C23: in every state reached by selecting stations, switching the tab or
\* show-inactive, toggling and renaming, with responses arriving in any
\* order, a selected station is one of the stations of the displayed list.
C23_SelectedIsListed ==
    selectedStationId # NoId
    => \E k \in 1..Len(filteredStations) : filteredStations[k].id = selectedStationId

----------------------------------------------------------------------------
(* Stations: the guard selection outside the Assign Guards modal *)

GuardCallPending ==
    \E r \in requests : r.kind \in {"guards", "saveUpdate", "saveFetch"}

\* C24: while the Assign Guards modal is closed and neither a guard fetch nor
\* a save is in flight, selectedGuardIds is the set of ids of assignedUsers,
\* the guards shown for the selected station; guards toggled and then
\* cancelled leave nothing behind for the next opening or the next Save.
C24_SelectionMatchesAssigned ==
    (~assignModalOpen /\ ~GuardCallPending) => selectedGuardIds = assignedUsers

----------------------------------------------------------------------------
(* Stations: the error message after a later success *)

\* C25: after the initial load has succeeded, the error of a failed action
\* does not outlive the next successful one: when a Save completes or the
\* guards of the selected station arrive, the error is cleared and the
\* station list is displayed.
C25_SuccessClearsError ==
    [][ ( /\ ~loading
          /\ \/ saveRefetchOk
             \/ /\ getStationGuardsOk
                /\ \E r \in requests \ requests' : r.kind = "guards" /\ ~r.cancelled )
        => (error' = NoError /\ ListShown') ]_vars

----------------------------------------------------------------------------
(* Stations: selection by id *)

\* C26: a click on any station of the list, whatever its id, makes it the
\* selected station: the detail pane shows that station and, when the
\* selection changed, its guards are requested; a Save while a station is
\* selected issues updateStationGuards for that id.
C26_SelectionByNonNullId ==
    [][ /\ selectStation
            => \E s \in StationIds(stations) :
                  /\ selectedStationId' = s
                  /\ HasSelectedStation'
                  /\ selectedStation'.id = s
                  /\ s # selectedStationId => GuardsReq(s, FALSE) \in requests'
        /\ (handleSaveAssignments /\ selectedStationId # NoId)
            => \E r \in requests' :
                  r.kind = "saveUpdate" /\ r.station = selectedStationId
      ]_vars

====
